---------------------------- MODULE Spec2Model ----------------------------
(***************************************************************************)
(* The App component of the resume-analysis client (src/unnamed/part_000): *)
(* its React state, the health check, the file validator, the submit       *)
(* handler with its request in flight, the error auto-clear effect and the *)
(* share confirmation.                                                     *)
(*                                                                         *)
(* JavaScript strings are TLA+ strings; null / undefined is the empty set  *)
(* and a present value v is the singleton {v}.  Time is counted in whole   *)
(* seconds.  One page load is modelled: window.location.reload() starts    *)
(* the program again from Init.  dragActive only selects a CSS class and   *)
(* is left out.                                                            *)
(***************************************************************************)
EXTENDS Integers, Sequences, FiniteSets

----------------------------------------------------------------------------
(* Bounds of the model *)

\* health checks started by the Retry button that may be in flight at once
MaxRetryPending == 1

\* analyze requests that may be in flight at once
MaxAnalyzePending == 2

\* share-confirmation timers that may be pending at once
MaxShareTimers == 1

----------------------------------------------------------------------------
(* null and present values *)

Null == {}

Some(v) == {v}

Get(o) == CHOOSE v \in o : TRUE

----------------------------------------------------------------------------
(* String primitives *)

CharAt(s, i) == SubSeq(s, i, i)

\* String.prototype.includes
Includes(s, sub) ==
    \E i \in 1..(Len(s) - Len(sub) + 1) : SubSeq(s, i, i + Len(sub) - 1) = sub

IsWhiteSpace(c) == c \in {" ", "\t", "\n", "\r"}

RECURSIVE TrimStart(_)
TrimStart(s) ==
    IF s # "" /\ IsWhiteSpace(CharAt(s, 1)) THEN TrimStart(Tail(s)) ELSE s

RECURSIVE TrimEnd(_)
TrimEnd(s) ==
    IF s # "" /\ IsWhiteSpace(CharAt(s, Len(s)))
    THEN TrimEnd(SubSeq(s, 1, Len(s) - 1))
    ELSE s

\* String.prototype.trim
Trim(s) == TrimEnd(TrimStart(s))

Digits == <<"0", "1", "2", "3", "4", "5", "6", "7", "8", "9">>

IsDigit(c) == \E d \in 1..10 : Digits[d] = c

DigitValue(c) == (CHOOSE d \in 1..10 : Digits[d] = c) - 1

\* template-literal conversion of a non-negative integer
RECURSIVE NumToString(_)
NumToString(n) ==
    IF n < 10 THEN Digits[n + 1] ELSE NumToString(n \div 10) \o Digits[(n % 10) + 1]

----------------------------------------------------------------------------
(* Messages *)

MsgOnlyPdf == "Only PDF files are allowed"

MsgTooLarge == "File size exceeds 5MB limit"

MsgUpload == "Please upload your resume"

MsgEnterDescription == "Please enter the job description"

MsgDescriptionShort == "Job description must be at least 20 characters long"

MsgServerUnavailable ==
    "Backend server is not available. Please ensure the server is running"

MsgCannotConnect ==
    "Cannot connect to the backend server. Please ensure the server is running"

MsgAnalysisFailed == "Analysis failed"

MsgHttpError(status) == "HTTP error! status: " \o NumToString(status)

MsgCopied == "Analysis link copied to clipboard!"

----------------------------------------------------------------------------
(* Program constants *)

PdfType == "application/pdf"

MaxFileSize == 5 * 1024 * 1024

MinDescriptionLength == 20

\* delay of the auto-clear timer, seconds
ErrorClearDelay == 8

\* delay of the share-confirmation timer, seconds
ShareClearDelay == 2

----------------------------------------------------------------------------
(* Inputs *)

\* files the user may pick or drop
CandidateFiles ==
    [type : {PdfType, "image/png"}, size : {MaxFileSize, MaxFileSize + 1}]

Desc20 == "Senior React dev job"

Desc19 == "Senior React dev jo"

\* texts the user may type: empty, blank, 19 characters padded to 22, 20
Descriptions == {"", " \t", " " \o Desc19 \o "  ", Desc20}

----------------------------------------------------------------------------
VARIABLES
    file,            \* useState(null): Null or Some([type, size])
    jobDescription,  \* useState("")
    isLoading,       \* useState(false)
    results,         \* useState(null): Null or Some(result record)
    error,           \* useState(null): Null or Some(message)
    apiStatus,       \* useState("checking")
    mountHealth,     \* TRUE while the health check issued on mount is in flight
    retryHealth,     \* number of health checks issued by Retry in flight
    analyzePending,  \* number of analyze requests in flight
    effectTimer,     \* timer of the [error] effect: Null or Some(seconds left)
    shareTimers,     \* seconds left of each share-confirmation timer, oldest first
    errorAge         \* seconds since the displayed message was set

vars ==
    <<file, jobDescription, isLoading, results, error, apiStatus, mountHealth,
      retryHealth, analyzePending, effectTimer, shareTimers, errorAge>>

Init ==
    /\ file = Null
    /\ jobDescription = ""
    /\ isLoading = FALSE
    /\ results = Null
    /\ error = Null
    /\ apiStatus = "checking"
    /\ mountHealth = TRUE
    /\ retryHealth = 0
    /\ analyzePending = 0
    /\ effectTimer = Null
    /\ shareTimers = << >>
    /\ errorAge = 0

----------------------------------------------------------------------------
(* setError followed by the [error] effect *)

\* the timer the effect leaves pending once `error` has become e
EffectTimerFor(e) == IF e # Null THEN Some(ErrorClearDelay) ELSE Null

\* setError(e): an unchanged value re-renders nothing and re-runs no effect;
\* a changed one runs the cleanup (clearTimeout) and the effect again
SetError(e) ==
    IF e = error
    THEN UNCHANGED <<error, effectTimer, errorAge>>
    ELSE /\ error' = e
         /\ effectTimer' = EffectTimerFor(e)
         /\ errorAge' = 0

----------------------------------------------------------------------------
(* Health monitor *)

\* the status a health response sets
HealthStatus(ok) == IF ok THEN "connected" ELSE "error"

\* RetryStatus with the status reset when the check starts
RetryStatus_Checking == "checking"

\* checkApiHealth up to its await, called from the Retry button
RetryStatus == apiStatus

\* the response (ok or not) or the rejection of the health check of the mount
MountHealthResponse(ok) ==
    /\ mountHealth
    /\ mountHealth' = FALSE
    /\ apiStatus' = HealthStatus(ok)
    /\ UNCHANGED <<file, jobDescription, isLoading, results, error, retryHealth,
                   analyzePending, effectTimer, shareTimers, errorAge>>

\* the Retry button, rendered only in the error state
RetryClick ==
    /\ apiStatus = "error"
    /\ retryHealth < MaxRetryPending
    /\ retryHealth' = retryHealth + 1
    /\ apiStatus' = RetryStatus
    /\ UNCHANGED <<file, jobDescription, isLoading, results, error, mountHealth,
                   analyzePending, effectTimer, shareTimers, errorAge>>

RetryHealthResponse(ok) ==
    /\ retryHealth > 0
    /\ retryHealth' = retryHealth - 1
    /\ apiStatus' = HealthStatus(ok)
    /\ UNCHANGED <<file, jobDescription, isLoading, results, error, mountHealth,
                   analyzePending, effectTimer, shareTimers, errorAge>>

----------------------------------------------------------------------------
(* Upload form *)

\* FileRejection without the check of the size
FileRejection_NoSizeCheck(f) ==
    IF f.type # PdfType THEN Some(MsgOnlyPdf) ELSE Null

\* the message handleFileChange rejects f with, or Null when it accepts
FileRejection(f) ==
    IF f.type # PdfType THEN Some(MsgOnlyPdf)
    ELSE IF f.size > MaxFileSize THEN Some(MsgTooLarge)
    ELSE Null

\* handleFileChange storing the candidate before it is validated
handleFileChange_StoreFirst(f) ==
    /\ file' = Some(f)
    /\ SetError(FileRejection(f))

handleFileChange(f) ==
    IF FileRejection(f) # Null
    THEN /\ SetError(FileRejection(f))
         /\ UNCHANGED file
    ELSE /\ file' = Some(f)
         /\ SetError(Null)

\* onChange of the file input
FileInputChange(f) ==
    /\ handleFileChange(f)
    /\ UNCHANGED <<jobDescription, isLoading, results, apiStatus, mountHealth,
                   retryHealth, analyzePending, shareTimers>>

\* onDrop of the drop zone
handleDrop(f) ==
    /\ handleFileChange(f)
    /\ UNCHANGED <<jobDescription, isLoading, results, apiStatus, mountHealth,
                   retryHealth, analyzePending, shareTimers>>

\* onChange of the textarea
DescriptionChange(text) ==
    /\ jobDescription' = text
    /\ UNCHANGED <<file, isLoading, results, error, apiStatus, mountHealth,
                   retryHealth, analyzePending, effectTimer, shareTimers,
                   errorAge>>

----------------------------------------------------------------------------
(* Result parser: extractMatchScore *)

UpperLetters == "ABCDEFGHIJKLMNOPQRSTUVWXYZ"

LowerLetters == "abcdefghijklmnopqrstuvwxyz"

LowerChar(c) ==
    IF \E i \in 1..26 : CharAt(UpperLetters, i) = c
    THEN CharAt(LowerLetters, CHOOSE i \in 1..26 : CharAt(UpperLetters, i) = c)
    ELSE c

\* String.prototype.toLowerCase
RECURSIVE ToLowerCase(_)
ToLowerCase(s) ==
    IF s = "" THEN "" ELSE LowerChar(CharAt(s, 1)) \o ToLowerCase(Tail(s))

SetMin(S) == CHOOSE x \in S : \A y \in S : x <= y

\* the literal lit (lower case) stands at position i of s, under the i flag
LiteralAt(s, i, lit) ==
    /\ i >= 1
    /\ i + Len(lit) - 1 <= Len(s)
    /\ ToLowerCase(SubSeq(s, i, i + Len(lit) - 1)) = lit

\* `.` matches everything but a line terminator
DotMatchesAll(s, a, b) == \A p \in a..b : CharAt(s, p) \notin {"\n", "\r"}

\* last position of the run of digits that starts at position i
DigitRunEnd(s, i) ==
    CHOOSE k \in i..Len(s) :
        /\ \A p \in i..k : IsDigit(CharAt(s, p))
        /\ k = Len(s) \/ ~IsDigit(CharAt(s, k + 1))

\* last position of the run of white space that starts after position k
SpaceRunEnd(s, k) ==
    CHOOSE w \in k..Len(s) :
        /\ \A p \in (k + 1)..w : IsWhiteSpace(CharAt(s, p))
        /\ w = Len(s) \/ ~IsWhiteSpace(CharAt(s, w + 1))

\* (\d+)% anchored at position j: the last digit's position, or 0
DigitsPercentAt(s, j) ==
    IF j >= 1 /\ j <= Len(s) /\ IsDigit(CharAt(s, j))
    THEN LET k == DigitRunEnd(s, j)
         IN  IF k < Len(s) /\ CharAt(s, k + 1) = "%" THEN k ELSE 0
    ELSE 0

\* (\d+)\s*% anchored at position j: the position of the %, or 0
DigitsSpacePercentAt(s, j) ==
    IF j >= 1 /\ j <= Len(s) /\ IsDigit(CharAt(s, j))
    THEN LET w == SpaceRunEnd(s, DigitRunEnd(s, j))
         IN  IF w < Len(s) /\ CharAt(s, w + 1) = "%" THEN w + 1 ELSE 0
    ELSE 0

\* match[1] of /label.*?(\d+)%/i : Null when the pattern does not match
LabelPattern(s, label) ==
    LET Captures(i) ==
            {j \in (i + Len(label))..Len(s) :
                /\ DotMatchesAll(s, i + Len(label), j - 1)
                /\ DigitsPercentAt(s, j) > 0}
        starts == {i \in 1..Len(s) : LiteralAt(s, i, label) /\ Captures(i) # {}}
    IN  IF starts = {} THEN Null
        ELSE LET j == SetMin(Captures(SetMin(starts)))
             IN  Some(SubSeq(s, j, DigitsPercentAt(s, j)))

\* match[1] of /(\d+)%.*?match/i
PercentMatchPattern(s) ==
    LET Tails(i) ==
            {m \in (DigitsPercentAt(s, i) + 2)..Len(s) :
                /\ LiteralAt(s, m, "match")
                /\ DotMatchesAll(s, DigitsPercentAt(s, i) + 2, m - 1)}
        starts == {i \in 1..Len(s) : DigitsPercentAt(s, i) > 0 /\ Tails(i) # {}}
    IN  IF starts = {} THEN Null
        ELSE LET i == SetMin(starts) IN Some(SubSeq(s, i, DigitsPercentAt(s, i)))

\* the array String.prototype.match returns for /(\d+)\s*%/g, searching from
\* position from: every whole match, left to right, none overlapping
RECURSIVE GlobalPercentMatches(_, _)
GlobalPercentMatches(s, from) ==
    LET starts == {i \in from..Len(s) : DigitsSpacePercentAt(s, i) > 0}
    IN  IF starts = {} THEN << >>
        ELSE LET i == SetMin(starts)
                 e == DigitsSpacePercentAt(s, i)
             IN  <<SubSeq(s, i, e)>> \o GlobalPercentMatches(s, e + 1)

\* match[1] of the /g pattern: the second element of the array of matches
GlobalPattern(s) ==
    LET all == GlobalPercentMatches(s, 1)
    IN  IF Len(all) >= 2 THEN Some(all[2]) ELSE Null

\* value of a string of digits
RECURSIVE DigitsValue(_)
DigitsValue(d) ==
    IF d = "" THEN 0
    ELSE 10 * DigitsValue(SubSeq(d, 1, Len(d) - 1)) + DigitValue(CharAt(d, Len(d)))

\* parseInt of match[1]: the leading digits' value; Null is NaN
ParseInt(m) ==
    IF m = Null \/ Get(m) = "" \/ ~IsDigit(CharAt(Get(m), 1)) THEN Null
    ELSE Some(DigitsValue(SubSeq(Get(m), 1, DigitRunEnd(Get(m), 1))))

\* match[1] of each of the four patterns, in the order of the array
PatternCaptures(text) ==
    <<LabelPattern(text, "match percentage:"),
      PercentMatchPattern(text),
      LabelPattern(text, "score:"),
      GlobalPattern(text)>>

\* KeywordScore testing the tiers from the lowest up
KeywordScore_LowestFirst(text) ==
    LET t == ToLowerCase(text)
    IN  IF Includes(t, "fair") \/ Includes(t, "potential") THEN 65
        ELSE IF Includes(t, "good") \/ Includes(t, "suitable") THEN 75
        ELSE IF Includes(t, "excellent") \/ Includes(t, "strong match") THEN 85
        ELSE 60

\* the estimate from the content, when no pattern gave a score
KeywordScore(text) ==
    LET t == ToLowerCase(text)
    IN  IF Includes(t, "excellent") \/ Includes(t, "strong match") THEN 85
        ELSE IF Includes(t, "good") \/ Includes(t, "suitable") THEN 75
        ELSE IF Includes(t, "fair") \/ Includes(t, "potential") THEN 65
        ELSE 60

extractMatchScore(analysisText) ==
    LET score == [p \in 1..4 |-> ParseInt(PatternCaptures(analysisText)[p])]
        inRange == {p \in 1..4 :
                       score[p] # Null /\ Get(score[p]) >= 0 /\ Get(score[p]) <= 100}
    IN  IF inRange # {} THEN Get(score[SetMin(inRange)])
        ELSE KeywordScore(analysisText)

----------------------------------------------------------------------------
(* Analysis submitter: handleSubmit *)

\* SubmitRejection with the status checked before the file and the text
SubmitRejection_StatusFirst ==
    IF apiStatus = "error" THEN Some(MsgServerUnavailable)
    ELSE IF file = Null THEN Some(MsgUpload)
    ELSE IF Trim(jobDescription) = "" THEN Some(MsgEnterDescription)
    ELSE IF Len(Trim(jobDescription)) < MinDescriptionLength
         THEN Some(MsgDescriptionShort)
    ELSE Null

\* SubmitRejection without the check of the status
SubmitRejection_NoStatusCheck ==
    IF file = Null THEN Some(MsgUpload)
    ELSE IF Trim(jobDescription) = "" THEN Some(MsgEnterDescription)
    ELSE IF Len(Trim(jobDescription)) < MinDescriptionLength
         THEN Some(MsgDescriptionShort)
    ELSE Null

\* SubmitRejection measuring the text as typed, not trimmed
SubmitRejection_LengthUntrimmed ==
    IF file = Null THEN Some(MsgUpload)
    ELSE IF Trim(jobDescription) = "" THEN Some(MsgEnterDescription)
    ELSE IF Len(jobDescription) < MinDescriptionLength
         THEN Some(MsgDescriptionShort)
    ELSE IF apiStatus = "error" THEN Some(MsgServerUnavailable)
    ELSE Null

\* the message handleSubmit aborts with, or Null when every check passes
SubmitRejection ==
    IF file = Null THEN Some(MsgUpload)
    ELSE IF Trim(jobDescription) = "" THEN Some(MsgEnterDescription)
    ELSE IF Len(Trim(jobDescription)) < MinDescriptionLength
         THEN Some(MsgDescriptionShort)
    ELSE IF apiStatus = "error" THEN Some(MsgServerUnavailable)
    ELSE Null

\* handleSubmit up to its await: an abort, or the request sent
\* handleSubmit without the setResults(null) of a started submission
handleSubmit_KeepResults ==
    IF SubmitRejection # Null
    THEN /\ SetError(SubmitRejection)
         /\ UNCHANGED <<file, jobDescription, isLoading, results, apiStatus,
                        mountHealth, retryHealth, analyzePending, shareTimers>>
    ELSE /\ analyzePending < MaxAnalyzePending
         /\ isLoading' = TRUE
         /\ SetError(Null)
         /\ analyzePending' = analyzePending + 1
         /\ UNCHANGED <<file, jobDescription, results, apiStatus, mountHealth,
                        retryHealth, shareTimers>>

handleSubmit ==
    IF SubmitRejection # Null
    THEN /\ SetError(SubmitRejection)
         /\ UNCHANGED <<file, jobDescription, isLoading, results, apiStatus,
                        mountHealth, retryHealth, analyzePending, shareTimers>>
    ELSE /\ analyzePending < MaxAnalyzePending
         /\ isLoading' = TRUE
         /\ SetError(Null)
         /\ results' = Null
         /\ analyzePending' = analyzePending + 1
         /\ UNCHANGED <<file, jobDescription, apiStatus, mountHealth,
                        retryHealth, shareTimers>>

\* SubmitDisabled without the loading flag
SubmitDisabled_StatusOnly == apiStatus = "error"

\* the disabled attribute of the submit button
SubmitDisabled == isLoading \/ apiStatus = "error"

\* a click on the submit button: the only control that submits the form
SubmitClick ==
    /\ ~SubmitDisabled
    /\ handleSubmit

\* a submit event that reaches the form's onSubmit without the button
\* (form.requestSubmit(), a dispatched event): the handler called as such
FormSubmit == handleSubmit

(* What the analyze request can come back with *)

\* messages of the TypeError a rejected fetch carries, by browser
NetworkErrorMessages ==
    {"Failed to fetch", "NetworkError when attempting to fetch resource."}

\* message of response.json() on a body that is not JSON
JsonSyntaxError == "Unexpected token < in JSON at position 0"

\* message of undefined.match(...), for a payload without `result`
UndefinedMatchError == "Cannot read properties of undefined (reading 'match')"

ServerErrors == {Null, Some("Invalid PDF"), Some("Failed to fetch resume text")}

ServerScores == {Null, Some(0), Some(92), Some(150)}

ServerResults == {Null, Some("Match Percentage: 78%"), Some("Decent resume")}

ServerTime == Some("2025-01-01T00:00:00.000Z")

Response(kind, message, ok, success, err, score, result) ==
    [kind |-> kind, message |-> message, ok |-> ok,
     status |-> IF ok THEN 200 ELSE 500, success |-> success, error |-> err,
     matchScore |-> score, result |-> result, analyzedAt |-> ServerTime]

AnalyzeResponses ==
    {Response("rejected", m, FALSE, FALSE, Null, Null, Null) :
        m \in NetworkErrorMessages}
    \cup {Response("notjson", "", ok, FALSE, Null, Null, Null) : ok \in BOOLEAN}
    \cup {Response("json", "", f[1], f[2], e, Null, Null) :
            f \in {<<FALSE, FALSE>>, <<FALSE, TRUE>>, <<TRUE, FALSE>>},
            e \in ServerErrors}
    \cup {Response("json", "", TRUE, TRUE, Null, sc, t) :
            sc \in ServerScores, t \in ServerResults}

\* a string that is present and not empty
TruthyText(o) == o # Null /\ Get(o) # ""

\* a number that is present and not 0
TruthyNumber(o) == o # Null /\ Get(o) # 0

Throw(message) == [thrown |-> TRUE, message |-> message, value |-> Null]

Return(value) == [thrown |-> FALSE, message |-> "", value |-> Some(value)]

\* the try block of handleSubmit after the await: what it throws or stores.
\* The sections parseAnalysisResult cuts out of the text are read by nothing
\* modelled here and are left out of the stored value.
TryAnalyze(r) ==
    IF r.kind = "rejected" THEN Throw(r.message)
    ELSE IF r.kind = "notjson" THEN Throw(JsonSyntaxError)
    ELSE IF ~r.ok
         THEN Throw(IF TruthyText(r.error) THEN Get(r.error)
                    ELSE MsgHttpError(r.status))
    ELSE IF ~r.success
         THEN Throw(IF TruthyText(r.error) THEN Get(r.error)
                    ELSE MsgAnalysisFailed)
    ELSE IF r.result = Null THEN Throw(UndefinedMatchError)
    ELSE Return([matchScore |-> IF TruthyNumber(r.matchScore)
                                THEN Get(r.matchScore)
                                ELSE extractMatchScore(Get(r.result)),
                 rawAnalysis |-> Get(r.result),
                 analyzedAt |-> r.analyzedAt])

\* the catch block: the message shown and the status left
IsFetchFailure(message) == Includes(message, "Failed to fetch")

CaughtMessage(message) ==
    IF IsFetchFailure(message) THEN MsgCannotConnect ELSE message

\* FinallyLoading as a reset at the end of the try block only
FinallyLoading_TryOnly(thrown) == IF thrown THEN isLoading ELSE FALSE

\* the finally block: the loading flag after an outcome
FinallyLoading(thrown) == FALSE

\* the catch block applied to what the try block did, o: whether it threw,
\* the value it stored, the message the catch block shows and whether the
\* catch block flips the status
Caught(o) ==
    [thrown |-> o.thrown,
     value |-> o.value,
     message |-> IF o.thrown THEN Some(CaughtMessage(o.message)) ELSE Null,
     fetchFailure |-> o.thrown /\ IsFetchFailure(o.message)]

\* try and catch together, tabulated over the responses
Completions == [r \in AnalyzeResponses |-> Caught(TryAnalyze(r))]

\* the state updates of handleSubmit after its await, for the completion c
Complete(c) ==
    /\ analyzePending > 0
    /\ analyzePending' = analyzePending - 1
    /\ IF c.thrown
       THEN /\ SetError(c.message)
            /\ apiStatus' = IF c.fetchFailure THEN "error" ELSE apiStatus
            /\ UNCHANGED results
       ELSE /\ results' = c.value
            /\ UNCHANGED <<error, effectTimer, errorAge, apiStatus>>
    /\ isLoading' = FinallyLoading(c.thrown)
    /\ UNCHANGED <<file, jobDescription, mountHealth, retryHealth, shareTimers>>

\* handleSubmit from its await on, for the response or rejection r
AnalyzeResponse(r) == Complete(Completions[r])

----------------------------------------------------------------------------
(* Share confirmation and timers *)

\* Share Results, once the clipboard write has resolved
ShareClick ==
    /\ results # Null
    /\ Len(shareTimers) < MaxShareTimers
    /\ SetError(Some(MsgCopied))
    /\ shareTimers' = Append(shareTimers, ShareClearDelay)
    /\ UNCHANGED <<file, jobDescription, isLoading, results, apiStatus,
                   mountHealth, retryHealth, analyzePending>>

\* one second passes; a timer that is due fires before time moves on
Tick ==
    /\ effectTimer # Null \/ shareTimers # << >>
    /\ effectTimer # Some(0)
    /\ \A i \in 1..Len(shareTimers) : shareTimers[i] # 0
    /\ effectTimer' = IF effectTimer = Null THEN Null ELSE Some(Get(effectTimer) - 1)
    /\ shareTimers' = [i \in 1..Len(shareTimers) |-> shareTimers[i] - 1]
    /\ errorAge' = IF error = Null THEN 0 ELSE errorAge + 1
    /\ UNCHANGED <<file, jobDescription, isLoading, results, error, apiStatus,
                   mountHealth, retryHealth, analyzePending>>

\* the callback of the effect's timer
EffectTimerFires ==
    /\ effectTimer = Some(0)
    /\ error' = Null
    /\ effectTimer' = Null
    /\ errorAge' = 0
    /\ UNCHANGED <<file, jobDescription, isLoading, results, apiStatus,
                   mountHealth, retryHealth, analyzePending, shareTimers>>

\* the callback of a share-confirmation timer
ShareTimerFires ==
    /\ shareTimers # << >>
    /\ Head(shareTimers) = 0
    /\ shareTimers' = Tail(shareTimers)
    /\ SetError(Null)
    /\ UNCHANGED <<file, jobDescription, isLoading, results, apiStatus,
                   mountHealth, retryHealth, analyzePending>>

----------------------------------------------------------------------------
(* Specifications *)

\* the page driven through its controls
Next ==
    \/ \E ok \in BOOLEAN : MountHealthResponse(ok)
    \/ RetryClick
    \/ \E ok \in BOOLEAN : RetryHealthResponse(ok)
    \/ \E f \in CandidateFiles : FileInputChange(f)
    \/ \E f \in CandidateFiles : handleDrop(f)
    \/ \E text \in Descriptions : DescriptionChange(text)
    \/ SubmitClick
    \/ \E r \in AnalyzeResponses : AnalyzeResponse(r)
    \/ ShareClick
    \/ Tick
    \/ EffectTimerFires
    \/ ShareTimerFires

Spec == Init /\ [][Next]_vars

\* every analyze request eventually returns or fails
LiveSpec == Spec /\ WF_vars(\E r \in AnalyzeResponses : AnalyzeResponse(r))

\* the page with handleSubmit also called as a function of its own
NextForm == Next \/ FormSubmit

FormSpec == Init /\ [][NextForm]_vars

----------------------------------------------------------------------------
(* Score renderer: getScoreColor, getScoreIcon, getScoreDescription *)

getScoreColor(score) ==
    IF score >= 90 THEN "from-green-500 to-emerald-600 border-green-400/50"
    ELSE IF score >= 80 THEN "from-blue-500 to-cyan-600 border-blue-400/50"
    ELSE IF score >= 70 THEN "from-yellow-500 to-orange-600 border-yellow-400/50"
    ELSE "from-red-500 to-red-600 border-red-400/50"

\* the four icons, named by their code points
getScoreIcon(score) ==
    IF score >= 90 THEN "U+1F3AF"
    ELSE IF score >= 80 THEN "U+1F44D"
    ELSE IF score >= 70 THEN "U+1F44C"
    ELSE "U+26A0 U+FE0F"

\* getScoreDescription without the tier of the scores from 60
getScoreDescription_FourTiers(score) ==
    IF score >= 90 THEN "Excellent Match"
    ELSE IF score >= 80 THEN "Strong Match"
    ELSE IF score >= 70 THEN "Good Match"
    ELSE "Needs Improvement"

getScoreDescription(score) ==
    IF score >= 90 THEN "Excellent Match"
    ELSE IF score >= 80 THEN "Strong Match"
    ELSE IF score >= 70 THEN "Good Match"
    ELSE IF score >= 60 THEN "Fair Match"
    ELSE "Needs Improvement"

\* what the results section shows for the stored score
ScoreBadge(score) ==
    [color |-> getScoreColor(score),
     icon |-> getScoreIcon(score),
     label |-> getScoreDescription(score)]

----------------------------------------------------------------------------
(* The parser and the renderer on their own: one submission in flight, and
   the successful responses it can end with *)

Leads == {"", "Match Percentage: ", "Score: ", "fit "}

Numbers == {"", "70%", "150%", "0 %"}

Middles == {" ", " suitable\n"}

Tails == {"", "50%", "Excellent", "fair and good", "a Strong Match 5%",
          "potential"}

\* analysis texts of the server
ScoreTexts ==
    {l \o n \o m \o t : l \in Leads, n \in Numbers, m \in Middles, t \in Tails}

\* scores of the server
RenderScores == 1..100

ScoreInit ==
    /\ file = Some([type |-> PdfType, size |-> MaxFileSize])
    /\ jobDescription = Desc20
    /\ isLoading = TRUE
    /\ results = Null
    /\ error = Null
    /\ apiStatus = "connected"
    /\ mountHealth = FALSE
    /\ retryHealth = 0
    /\ analyzePending = 1
    /\ effectTimer = Null
    /\ shareTimers = << >>
    /\ errorAge = 0

TextCompletions ==
    [t \in ScoreTexts |->
        Caught(TryAnalyze(Response("json", "", TRUE, TRUE, Null, Null, Some(t))))]

ScoreCompletions ==
    [n \in RenderScores |->
        Caught(TryAnalyze(Response("json", "", TRUE, TRUE, Null, Some(n),
                                   Some("Decent resume"))))]

\* a successful response without a score: extractMatchScore is applied
TextResponse(t) == Complete(TextCompletions[t])

\* a successful response with a score
ScoreResponse(n) == Complete(ScoreCompletions[n])

ScoreNext ==
    \/ \E t \in ScoreTexts : TextResponse(t)
    \/ \E n \in RenderScores : ScoreResponse(n)

ScoreSpec == ScoreInit /\ [][ScoreNext]_vars

----------------------------------------------------------------------------
(* Properties *)

TrimmedLength == Len(Trim(jobDescription))

\* a step in which a health response arrives
HealthResponded == mountHealth' # mountHealth \/ retryHealth' < retryHealth

\* C1: handleSubmit checks file present, text not blank, trimmed length >= 20,
\* status not error, in that order; the message set is the one of the first
\* check that fails, and when any fails no request is issued and the loading
\* flag is left as it was (false, when the submission came from the button).
C1_SubmitChecksInOrder ==
    [][handleSubmit =>
        LET noFile == file = Null
            blank == Trim(jobDescription) = ""
            short == TrimmedLength < 20
            down == apiStatus = "error"
        IN  /\ noFile => error' = Some(MsgUpload)
            /\ ~noFile /\ blank => error' = Some(MsgEnterDescription)
            /\ ~noFile /\ ~blank /\ short => error' = Some(MsgDescriptionShort)
            /\ ~noFile /\ ~blank /\ ~short /\ down
                  => error' = Some(MsgServerUnavailable)
            /\ noFile \/ blank \/ short \/ down
                  => /\ analyzePending' = analyzePending
                     /\ isLoading' = isLoading
                     /\ ~SubmitDisabled => ~isLoading'
            /\ ~(noFile \/ blank \/ short \/ down)
                  => analyzePending' = analyzePending + 1 /\ isLoading'
    ]_vars

\* a submission with a file and a short text was aborted
C1_Witness ==
    /\ error = Some(MsgDescriptionShort)
    /\ file # Null
    /\ TrimmedLength \in 1..19
    /\ analyzePending = 0
    /\ ~isLoading

\* C2: through the page's controls at most one analyze request is in flight;
\* while one is, the loading flag is set and the submit button is disabled.
C2_OneRequestInFlight ==
    /\ analyzePending <= 1
    /\ analyzePending = 1 => isLoading
    /\ isLoading => SubmitDisabled

\* a request is in flight and the button is disabled
C2_Witness == analyzePending = 1 /\ isLoading /\ SubmitDisabled

\* C3: every analyze request that ends, however it ends, leaves the loading
\* flag false; and, every request eventually returning or failing, a set
\* loading flag is eventually cleared.
C3_LoadingClears ==
    /\ [][analyzePending' < analyzePending => ~isLoading']_vars
    /\ (isLoading ~> ~isLoading)

\* a submission ended by an exception while the response was parsed
C3_Witness ==
    /\ error = Some(JsonSyntaxError)
    /\ ~isLoading
    /\ analyzePending = 0

\* C4, as claimed: the status only moves checking -> connected | error on a
\* health response and error -> checking on a manual retry, and a manual retry
\* puts it in checking.
C4_Original ==
    [][/\ apiStatus' # apiStatus =>
            \/ /\ apiStatus = "checking"
               /\ apiStatus' \in {"connected", "error"}
               /\ HealthResponded
            \/ /\ apiStatus = "error"
               /\ apiStatus' = "checking"
               /\ retryHealth' > retryHealth
       /\ retryHealth' > retryHealth => apiStatus' = "checking"
    ]_vars

\* C4, amended: the status is never set back to checking. It changes only when
\* a health response arrives (to connected or to error, from any status) or
\* when an analyze request fails with a "Failed to fetch" message (to error);
\* a manual retry, possible only in the error status, leaves the status error
\* until a health response arrives.
C4_StatusTransitions ==
    [][/\ apiStatus' # apiStatus =>
            /\ apiStatus' \in {"connected", "error"}
            /\ \/ HealthResponded
               \/ analyzePending' < analyzePending /\ apiStatus' = "error"
       /\ retryHealth' > retryHealth => apiStatus = "error" /\ apiStatus' = "error"
    ]_vars

\* a manual retry is in flight and the status is still error
C4_Witness == apiStatus = "error" /\ retryHealth > 0 /\ ~mountHealth

\* C5, as claimed: handleSubmit run in the error status sets the
\* server-unavailable message and issues no request, whatever the file and
\* the text.
C5_Original ==
    [][handleSubmit /\ apiStatus = "error" =>
        /\ error' = Some(MsgServerUnavailable)
        /\ analyzePending' = analyzePending
    ]_vars

\* C5, amended: handleSubmit run in the error status always aborts with a
\* message and issues no request, whatever the file and the text; the message
\* is the server-unavailable one only when a file is present and the trimmed
\* text has at least 20 characters, and otherwise the message of the file or
\* text check that fails first.
C5_RejectedInErrorStatus ==
    [][handleSubmit /\ apiStatus = "error" =>
        /\ analyzePending' = analyzePending
        /\ isLoading' = isLoading
        /\ results' = results
        /\ IF file # Null /\ TrimmedLength >= 20
           THEN error' = Some(MsgServerUnavailable)
           ELSE error' \in {Some(MsgUpload), Some(MsgEnterDescription),
                            Some(MsgDescriptionShort)}
    ]_vars

\* a complete form was submitted in the error status and turned away
C5_Witness ==
    /\ error = Some(MsgServerUnavailable)
    /\ errorAge = 0
    /\ apiStatus = "error"
    /\ file # Null
    /\ TrimmedLength >= 20

\* C6, as claimed: with a text of trimmed length below 20, the empty and the
\* blank text included, handleSubmit sets the length message and issues no
\* request.
C6_Original ==
    [][handleSubmit /\ TrimmedLength < 20 =>
        /\ error' = Some(MsgDescriptionShort)
        /\ analyzePending' = analyzePending
    ]_vars

\* C6, amended: with a text of trimmed length below 20 handleSubmit aborts and
\* issues no request; the message is the length message when a file is present
\* and the trimmed text is not empty, "Please enter the job description" when
\* a file is present and the trimmed text is empty, and "Please upload your
\* resume" when no file is present.
C6_ShortDescriptionRejected ==
    [][handleSubmit /\ TrimmedLength < 20 =>
        /\ analyzePending' = analyzePending
        /\ isLoading' = isLoading
        /\ error' = IF file = Null THEN Some(MsgUpload)
                    ELSE IF TrimmedLength = 0 THEN Some(MsgEnterDescription)
                    ELSE Some(MsgDescriptionShort)
    ]_vars

\* a blank, not empty, text was submitted with a file
C6_Witness ==
    /\ error = Some(MsgEnterDescription)
    /\ errorAge = 0
    /\ file # Null
    /\ jobDescription # ""
    /\ TrimmedLength = 0

\* C7: an analyze request that fails at network level sets the cannot-connect
\* message and the error status; the status then stays error until a health
\* check started by a manual retry returns success.
C7_NetworkFailureSticks ==
    [][/\ (\E r \in AnalyzeResponses : r.kind = "rejected" /\ AnalyzeResponse(r))
            => error' = Some(MsgCannotConnect) /\ apiStatus' = "error"
       /\ apiStatus = "error" /\ apiStatus' # "error"
            => retryHealth' < retryHealth /\ apiStatus' = "connected"
    ]_vars

\* timers pending that will clear the error slot
PendingTimers == (IF effectTimer # Null THEN 1 ELSE 0) + Len(shareTimers)

\* C8: at most one auto-clear timer is pending at any time.
C8_OneTimerPending == PendingTimers <= 1

\* C9: a timer never removes a message earlier than 8 seconds after the
\* message was set.  Stated for the messages other than the share
\* confirmation, whose own timer runs 2 seconds.
C9_MessageShownEightSeconds ==
    [][(EffectTimerFires \/ ShareTimerFires)
        /\ error # Null /\ error # Some(MsgCopied) /\ error' = Null
            => errorAge >= 8
    ]_vars

\* C10: the stored file is absent or a PDF of at most 5,242,880 bytes.
C10_StoredFileValid ==
    \/ file = Null
    \/ /\ Get(file).type = "application/pdf"
       /\ Get(file).size <= 5242880

\* a file is stored and a later candidate above the limit was turned away
C10_Witness == file # Null /\ error = Some(MsgTooLarge)

\* C11: a candidate whose type is not application/pdf, and a candidate above
\* 5,242,880 bytes whatever its type, is rejected by handleFileChange: one of
\* the two validation messages is set, and the stored file, absent or
\* present, is left as it was.
C11_InvalidCandidateRejected ==
    [][\A f \in CandidateFiles :
          /\ f.type # "application/pdf" \/ f.size > 5242880
          /\ FileInputChange(f) \/ handleDrop(f)
          => /\ file' = file
             /\ error' \in {Some(MsgOnlyPdf), Some(MsgTooLarge)}
             /\ f.type # "application/pdf" => error' = Some(MsgOnlyPdf)
    ]_vars

\* a file is stored and a later candidate of another type was turned away
C11_Witness == file # Null /\ error = Some(MsgOnlyPdf) /\ errorAge = 0

\* the successful responses that carry a score of the server and a text
ScoredResponses ==
    {r \in AnalyzeResponses :
        r.kind = "json" /\ r.ok /\ r.success /\ r.matchScore # Null
            /\ r.result # Null}

\* C12: a successful response that carries a matchScore in 0..100, 0
\* included, stores that value as results.matchScore, whatever its text.
C12_ServerScoreStored ==
    [][\A r \in ScoredResponses :
          Get(r.matchScore) \in 0..100 /\ AnalyzeResponse(r)
              => /\ results' # Null
                 /\ Get(results').matchScore = Get(r.matchScore)
    ]_vars

\* C13: whenever results is present, its matchScore is an integer in 0..100.
C13_ScoreInRange ==
    results # Null => Get(results).matchScore \in 0..100

\* the response is not an HTTP-ok response with a true success flag
FailedResponse(r) == r.kind # "json" \/ ~r.ok \/ ~r.success

\* C14: results becomes present only by an HTTP-ok response with a true
\* success flag; a started submission clears it, so it is absent while the
\* loading flag is set, and it is absent after a submission that failed.
C14_ResultsOfLastSubmission ==
    /\ [](isLoading => results = Null)
    /\ [][/\ (results' # Null /\ results' # results)
               => (\E r \in AnalyzeResponses :
                       ~FailedResponse(r) /\ AnalyzeResponse(r))
          /\ (analyzePending' > analyzePending) => (results' = Null)
          /\ (\E r \in AnalyzeResponses :
                  FailedResponse(r) /\ AnalyzeResponse(r))
               => (results' = Null)
       ]_vars

\* results of an earlier submission were shared, and a later submission has
\* failed since and left no results
C14_Witness ==
    /\ shareTimers # << >>
    /\ results = Null
    /\ ~isLoading
    /\ analyzePending = 0
    /\ error = Some("Invalid PDF")

\* C17: a JSON response that is non-2xx or has no true success flag ends the
\* submission with the error text of the server as the message, or with a
\* generic message when the server sent none; results stays absent, the
\* loading flag ends false and the status is left as it was.
C17_ServerFailureReported ==
    [][\A r \in AnalyzeResponses :
          /\ r.kind = "json"
          /\ ~r.ok \/ ~r.success
          /\ AnalyzeResponse(r)
          => /\ IF r.error # Null
                THEN error' = r.error
                ELSE error' \in {Some(MsgHttpError(r.status)),
                                 Some(MsgAnalysisFailed)}
             /\ results' = Null
             /\ ~isLoading'
             /\ apiStatus' = apiStatus
    ]_vars

\* results came from extractMatchScore: the response carried no score
Extracted ==
    /\ results # Null
    /\ Get(results).rawAnalysis \in ScoreTexts

\* the patterns of which the capture is a score in 0..100
InRange(captures) ==
    {p \in 1..4 :
        /\ ParseInt(captures[p]) # Null
        /\ Get(ParseInt(captures[p])) \in 0..100}

\* the captures as C15 describes them: the fourth is the first "NN%" of the
\* text
FirstPercentCaptures(text) ==
    LET all == GlobalPercentMatches(text, 1)
    IN  <<LabelPattern(text, "match percentage:"),
          PercentMatchPattern(text),
          LabelPattern(text, "score:"),
          IF all # << >> THEN Some(all[1]) ELSE Null>>

\* C15: extractMatchScore returns the capture of the first of the four
\* patterns whose capture lies in 0..100, the capture of the fourth pattern
\* being the number of the first "NN%" of the text.
C15_FirstPatternInRange ==
    Extracted =>
        LET claimed == FirstPercentCaptures(Get(results).rawAnalysis)
        IN  InRange(claimed) # {} =>
                Get(results).matchScore
                    = Get(ParseInt(claimed[SetMin(InRange(claimed))]))

\* C16: when none of the four patterns gives a score in 0..100,
\* extractMatchScore returns 85 for a text that contains "excellent" or
\* "strong match" in any case, else 75 for "good" or "suitable", else 65 for
\* "fair" or "potential", else 60.
C16_KeywordTiers ==
    Extracted /\ InRange(PatternCaptures(Get(results).rawAnalysis)) = {} =>
        LET t == ToLowerCase(Get(results).rawAnalysis)
            Has(word) == Includes(t, word)
        IN  /\ Has("excellent") \/ Has("strong match")
                => Get(results).matchScore = 85
            /\ ~(Has("excellent") \/ Has("strong match"))
                /\ (Has("good") \/ Has("suitable"))
                => Get(results).matchScore = 75
            /\ ~(Has("excellent") \/ Has("strong match"))
                /\ ~(Has("good") \/ Has("suitable"))
                /\ (Has("fair") \/ Has("potential"))
                => Get(results).matchScore = 65
            /\ ~(Has("excellent") \/ Has("strong match"))
                /\ ~(Has("good") \/ Has("suitable"))
                /\ ~(Has("fair") \/ Has("potential"))
                => Get(results).matchScore = 60

\* a text without a percentage that holds words of two tiers got the score
\* of the higher tier
C16_Witness ==
    /\ Extracted
    /\ InRange(PatternCaptures(Get(results).rawAnalysis)) = {}
    /\ Includes(Get(results).rawAnalysis, "fair")
    /\ Includes(Get(results).rawAnalysis, "good")
    /\ Get(results).matchScore = 75

\* the four bands of C18
FourBand(score) ==
    IF score >= 90 THEN 1 ELSE IF score >= 80 THEN 2
    ELSE IF score >= 70 THEN 3 ELSE 4

\* the five bands of the label
FiveBand(score) ==
    IF score >= 60 /\ score < 70 THEN 5 ELSE FourBand(score)

\* a score in 0..100 is on display
Rendered == results # Null /\ Get(results).matchScore \in 0..100

\* C18, as claimed: color, icon and label of a score in 0..100 are each the
\* same as those of any score of the same band of the four (>= 90, >= 80,
\* >= 70, below) and differ from those of any score of another band.
C18_Original ==
    Rendered =>
        LET m == Get(results).matchScore
        IN  \A s \in 0..100 :
                /\ getScoreColor(s) = getScoreColor(m)
                        <=> FourBand(s) = FourBand(m)
                /\ getScoreIcon(s) = getScoreIcon(m)
                        <=> FourBand(s) = FourBand(m)
                /\ getScoreDescription(s) = getScoreDescription(m)
                        <=> FourBand(s) = FourBand(m)

\* C18, amended: color and icon of a score in 0..100 are functions of the
\* band of the four (>= 90, >= 80, >= 70, below) and differ between bands;
\* the label is a function of the band of five (>= 90, >= 80, >= 70, >= 60,
\* below) and differs between those, so the scores from 60 to 69 share color
\* and icon with the scores below 60 and not the label.
C18_ColorIconFourLabelFive ==
    Rendered =>
        LET m == Get(results).matchScore
        IN  \A s \in 0..100 :
                /\ getScoreColor(s) = getScoreColor(m)
                        <=> FourBand(s) = FourBand(m)
                /\ getScoreIcon(s) = getScoreIcon(m)
                        <=> FourBand(s) = FourBand(m)
                /\ getScoreDescription(s) = getScoreDescription(m)
                        <=> FiveBand(s) = FiveBand(m)

\* a score from 60 to 69 is shown in the color and with the icon of the
\* lowest band, and with a label of its own
C18_Witness ==
    /\ Rendered
    /\ Get(results).matchScore \in 60..69
    /\ ScoreBadge(Get(results).matchScore)
            = [color |-> getScoreColor(0), icon |-> getScoreIcon(0),
               label |-> "Fair Match"]

=============================================================================
